---- MODULE Spec2Model ----
(***************************************************************************)
(* ThoraxSense API (src/app.py): model acquisition at module import, and   *)
(* the request handlers of the FastAPI application.                        *)
(*                                                                         *)
(* Text is modelled as a sequence of one-character strings where the code  *)
(* inspects it (content types), and as an atomic string elsewhere.         *)
(* Probabilities are modelled as integers: float(prob) widens a float32    *)
(* exactly, so it preserves both the value and the order.                  *)
(***************************************************************************)
EXTENDS Integers, Sequences, FiniteSets, TLC

VARIABLES
    spc,        \* position of the module-level code (import of app.py)
    i,          \* loop index of download_model_safely, 1-based (enumerate(.., 1))
    file,       \* what is at MODEL_PATH on disk
    attempts,   \* history: the acquisition strategies attempted, in order
    model,      \* the module-level name `model`
    req         \* the requests in flight, one record per request

vars == <<spc, i, file, attempts, model, req>>

----------------------------------------------------------------------------
(* Bounds of the model *)

\* number of requests that can be in flight together
MaxRequests == 2
\* probabilities range over 0..MaxProb in the formatter's specification
MaxProb == 2

----------------------------------------------------------------------------
(* Values *)

None == "None"
Unset == "unset"
Loaded == "Loaded"

\* What is at MODEL_PATH: nothing, a file of at most 1024 bytes, a larger
\* file that is no Keras model, a larger file that is one.
FileStates == {"absent", "small", "corrupt", "valid"}

Exists(f) == f # "absent"

\* os.path.getsize(MODEL_PATH) > 1024
LargerThan1K(f) == f \in {"corrupt", "valid"}

----------------------------------------------------------------------------
(* Model acquisition *)

\* download_methods, by position
MethodName(k) ==
    CASE k = 1 -> "direct"
      [] k = 2 -> "alternate"
      [] k = 3 -> "synth"

NumMethods == 3

\* direct_download_with_cookies: True once a URL's body has been written
\* (whatever the server sent); every exception is caught per URL and the
\* function returns False, leaving whatever was written before it.
DirectDownload(f) ==
    {[ret |-> TRUE, file |-> g] : g \in {"small", "corrupt", "valid"}}
        \cup {[ret |-> FALSE, file |-> g] : g \in {f, "small", "corrupt"}}

\* alternative_download: True when wget exits 0; a missing wget or any other
\* exception is swallowed and the function returns False.
AlternativeDownload(f) ==
    {[ret |-> TRUE, file |-> g] : g \in {"small", "corrupt", "valid"}}
        \cup {[ret |-> FALSE, file |-> g] : g \in {f, "small", "corrupt"}}

\* create_minimal_model: True after model.save(MODEL_PATH); any exception is
\* caught and the function returns False.
CreateMinimalModel(f) ==
    {[ret |-> TRUE, file |-> "valid"]}
        \cup {[ret |-> FALSE, file |-> g] : g \in {f, "small"}}

Method(k, f) ==
    CASE k = 1 -> DirectDownload(f)
      [] k = 2 -> AlternativeDownload(f)
      [] k = 3 -> CreateMinimalModel(f)

\* line 52: the attempt counts only if the file is there and large enough
AttemptSucceeded(out) ==
    out.ret /\ Exists(out.file) /\ LargerThan1K(out.file)

\* download_model_safely, lines 30-33
CheckCached ==
    /\ spc = "download_model_safely"
    /\ attempts' = Append(attempts, "cached")
    /\ spc' = IF Exists(file) THEN "load_model" ELSE "makedirs"
    /\ UNCHANGED <<i, file, model, req>>

\* line 35: os.makedirs is outside every try block, and so is the call of
\* download_model_safely at line 164: an OSError ends the import.
MakeDirs ==
    /\ spc = "makedirs"
    /\ \E ok \in BOOLEAN :
          spc' = IF ok THEN "loop" ELSE "crashed"
    /\ i' = 1
    /\ UNCHANGED <<file, attempts, model, req>>

\* lines 48-57: one iteration of the loop over download_methods
LoopAttempt ==
    /\ spc = "loop"
    /\ i <= NumMethods
    /\ \E out \in Method(i, file) :
          /\ file' = out.file
          /\ attempts' = Append(attempts, MethodName(i))
          /\ IF AttemptSucceeded(out)
                THEN spc' = "load_model" /\ i' = i
                ELSE IF i < NumMethods
                        THEN spc' = "loop" /\ i' = i + 1
                        ELSE spc' = "fallback" /\ i' = i
    /\ UNCHANGED <<model, req>>

\* lines 59-61: after the loop, create_minimal_model is called once more;
\* line 164 ignores what download_model_safely returns.
Fallback ==
    /\ spc = "fallback"
    /\ \E out \in CreateMinimalModel(file) :
          file' = out.file
    /\ attempts' = Append(attempts, "synth")
    /\ spc' = "load_model"
    /\ UNCHANGED <<i, model, req>>

\* tf.keras.models.load_model(MODEL_PATH): raises unless the file is a
\* Keras model, and may raise even then
LoadOutcomes(f) ==
    IF f = "valid" THEN {Loaded, None} ELSE {None}

\* lines 166-177
LoadModel ==
    /\ spc = "load_model"
    /\ \E m \in LoadOutcomes(file) : model' = m
    /\ spc' = "serving"
    /\ UNCHANGED <<i, file, attempts, req>>

----------------------------------------------------------------------------
(* Text *)

Chars_image_slash == <<"i", "m", "a", "g", "e", "/">>
Chars_image_png == <<"i", "m", "a", "g", "e", "/", "p", "n", "g">>
Chars_text_plain == <<"t", "e", "x", "t", "/", "p", "l", "a", "i", "n">>
Chars_images_png == <<"i", "m", "a", "g", "e", "s", "/", "p", "n", "g">>

\* str.startswith
StartsWith(s, p) ==
    Len(s) >= Len(p) /\ SubSeq(s, 1, Len(p)) = p

\* UploadFile.content_type: a string, or None when the part declares none
NoContentType == [present |-> FALSE]
ContentType(s) == [present |-> TRUE, value |-> s]

ContentTypes ==
    {NoContentType, ContentType(Chars_image_png), ContentType(Chars_text_plain),
     ContentType(Chars_images_png)}

\* line 293: 10 * 1024 * 1024
MAX_BYTES == 10 * 1024 * 1024

\* the payload lengths tried: a small one, the limit, one byte over it
Sizes == {1, MAX_BYTES, MAX_BYTES + 1}

\* line 229
class_names == <<"NORMAL", "PNEUMONIA", "COVID-19", "TUBERCULOSIS">>

\* the query parameter of /api/recent-scans
Limits == {-1, 5, 12}

\* what Image.open(...).convert('RGB') can raise
DecodeErrors == {"cannot identify image file"}
\* what model.predict can raise
InferenceErrors == {"incompatible input shape"}
\* predictions[0], as the loaded model gives it: vectors of the four classes
\* (with and without ties), and one from a model with a fifth output
InferOutputs == {<<2, 1, 0, 0>>, <<1, 2, 2, 0>>, <<1, 1, 1, 1, 0>>}

----------------------------------------------------------------------------
(* Exceptions and responses *)

HTTPException(status_code, detail) ==
    [type |-> "HTTPException", status_code |-> status_code, detail |-> detail]

Exception(msg) == [type |-> "Exception", msg |-> msg]

\* what the framework sends for an HTTPException leaving a handler
ErrorResponse(e) ==
    [status |-> e.status_code, body |-> [detail |-> e.detail]]

\* what the framework sends for a returned value
OkResponse(content) == [status |-> 200, body |-> content]

\* what the framework sends when any other exception leaves a handler:
\* a plain-text 500, no "detail"
ServerErrorResponse == [status |-> 500, body |-> [text |-> "Internal Server Error"]]

\* lines 307-311: the except clauses of predict_xray's try block
ExceptClauses(e) ==
    IF e.type = "HTTPException"
        THEN e
        ELSE HTTPException(500, <<"Internal server error: ", e.msg>>)

\* dict.get(key, default)
Get(d, key, default) == IF key \in DOMAIN d THEN d[key] ELSE default

----------------------------------------------------------------------------
(* predict_image *)

\* lines 203-213
DemoResult ==
    [success |-> FALSE,
     error |-> "Model not loaded",
     demo_mode |-> TRUE,
     predictions |-> <<[class |-> "NORMAL", confidence |-> 85],
                       [class |-> "PNEUMONIA", confidence |-> 10],
                       [class |-> "COVID-19", confidence |-> 5],
                       [class |-> "TUBERCULOSIS", confidence |-> 0]>>]

\* lines 249-254
FailureResult(msg) == [success |-> FALSE, error |-> msg]

\* predict_image without its test of the handle
ModelAbsentBroken(m) == FALSE

\* line 202: model is None
ModelAbsent(m) == m = None

\* e goes before the entries whose confidence equals its own
RECURSIVE InsertStrict(_, _)
InsertStrict(sorted, e) ==
    IF sorted = <<>>
        THEN <<e>>
        ELSE IF Head(sorted).confidence > e.confidence
                THEN <<Head(sorted)>> \o InsertStrict(Tail(sorted), e)
                ELSE <<e>> \o sorted

RECURSIVE SortUnstableFrom(_, _)
SortUnstableFrom(sorted, rest) ==
    IF rest = <<>>
        THEN sorted
        ELSE SortUnstableFrom(InsertStrict(sorted, Head(rest)), Tail(rest))

\* a descending sort that does not keep equal entries in their order
SortUnstable(results) == SortUnstableFrom(<<>>, results)

\* e goes after every entry whose confidence is at least its own
RECURSIVE Insert(_, _)
Insert(sorted, e) ==
    IF sorted = <<>>
        THEN <<e>>
        ELSE IF Head(sorted).confidence >= e.confidence
                THEN <<Head(sorted)>> \o Insert(Tail(sorted), e)
                ELSE <<e>> \o sorted

RECURSIVE SortFrom(_, _)
SortFrom(sorted, rest) ==
    IF rest = <<>>
        THEN sorted
        ELSE SortFrom(Insert(sorted, Head(rest)), Tail(rest))

\* line 240: results.sort(key=confidence, reverse=True); list.sort is
\* stable, and reverse=True keeps equal entries in their original order
SortByConfidence(results) == SortFrom(<<>>, results)

\* lines 232-237
Results(probs) ==
    [k \in 1..Len(probs) |-> [class |-> class_names[k], confidence |-> probs[k]]]

\* lines 228-254: class_names[i] and results[0] raise IndexError, which the
\* except clause of predict_image turns into a failure result
FormatResult(probs) ==
    IF Len(probs) > Len(class_names) \/ Len(probs) = 0
        THEN FailureResult("list index out of range")
        ELSE LET sorted == SortByConfidence(Results(probs))
             IN  [success |-> TRUE,
                  predictions |-> sorted,
                  primary_diagnosis |-> sorted[1].class,
                  confidence |-> sorted[1].confidence]

----------------------------------------------------------------------------
(* Requests *)

Requests == 1..MaxRequests

NoResult == [unset |-> TRUE]
NoResponse == [status |-> 0]

\* A request: where its handler stands, what the client sent, and what the
\* handler has computed so far.  reads, decodes and infers count the calls of
\* file.read, Image.open and model.predict made for it; leaked is the
\* exception, if any, that left the handler without being an HTTPException.
IdleRequest ==
    [pc |-> "idle", endpoint |-> "", content_type |-> NoContentType, size |-> 0,
     limit |-> 0, contents |-> -1, decoded |-> "", probs |-> <<>>,
     inferred |-> "", result |-> NoResult, response |-> NoResponse,
     reads |-> 0, decodes |-> 0, infers |-> 0, leaked |-> ""]

\* a handler that unloads the model when it answers 500
ModelDroppedOnFailure(m, rq) ==
    IF rq.pc = "responded" /\ rq.response.status = 500 THEN None ELSE m

\* The module-level name `model` after a step of a handler.  No handler
\* assigns it: none has a `global` statement, so each only reads it.
ModelAfterHandler(m, rq) == m

\* One step of the handler of request r, leaving it as rq
Step(r, rq) ==
    /\ req' = [req EXCEPT ![r] = rq]
    /\ model' = ModelAfterHandler(model, rq)
    /\ UNCHANGED <<spc, i, file, attempts>>

Responded(rq, resp) == [rq EXCEPT !.pc = "responded", !.response = resp]

\* The framework routes a request to its handler (the app.get/app.post
\* decorators); the service accepts requests once the import has finished.
Arrive(r) ==
    /\ spc = "serving"
    /\ req[r].pc = "idle"
    /\ \/ \E e \in {"/", "/health"} :
             Step(r, [req[r] EXCEPT !.pc = "received", !.endpoint = e])
       \/ \E l \in Limits :
             Step(r, [req[r] EXCEPT !.pc = "received",
                                    !.endpoint = "/api/recent-scans",
                                    !.limit = l])
       \/ \E ct \in ContentTypes, n \in Sizes :
             Step(r, [req[r] EXCEPT !.pc = "received",
                                    !.endpoint = "/api/predict",
                                    !.content_type = ct,
                                    !.size = n])

\* lines 259-270
root(r) ==
    /\ req[r].pc = "received"
    /\ req[r].endpoint = "/"
    /\ Step(r, Responded(req[r],
            OkResponse([message |-> "ThoraxSense API is running",
                        status |-> "healthy",
                        model_loaded |-> (model # None)])))

\* lines 272-278
health_check(r) ==
    /\ req[r].pc = "received"
    /\ req[r].endpoint = "/health"
    /\ Step(r, Responded(req[r],
            OkResponse([status |-> "healthy",
                        model_loaded |-> (model # None),
                        model_path |-> IF Exists(file)
                                          THEN "models/resnet_final.keras"
                                          ELSE None])))

Min(a, b) == IF a <= b THEN a ELSE b

\* lines 317-328: one entry per k in range(min(limit, 10))
Scans(limit) ==
    [k \in 1..Min(limit, 10) |->
        [id |-> k - 1,
         diagnosis |-> class_names[((k - 1) % 3) + 1],
         confidence |-> (85 + (k - 1) * 2) % 100]]

\* lines 313-330
get_recent_scans(r) ==
    /\ req[r].pc = "received"
    /\ req[r].endpoint = "/api/recent-scans"
    /\ Step(r, Responded(req[r],
            OkResponse([scans |-> Scans(req[r].limit),
                        count |-> Min(req[r].limit, 10)])))

\* a test for "image", without the slash
IsImagePrefixOnly(s) == StartsWith(s, SubSeq(Chars_image_slash, 1, 5))

\* line 285: content_type.startswith('image/')
IsImage(s) == StartsWith(s, Chars_image_slash)

\* lines 284-286, outside the try block: None has no startswith, and the
\* AttributeError leaves the handler
CheckContentType(r) ==
    /\ req[r].pc = "received"
    /\ req[r].endpoint = "/api/predict"
    /\ IF ~req[r].content_type.present
          THEN Step(r, [Responded(req[r], ServerErrorResponse)
                            EXCEPT !.leaked = "AttributeError"])
          ELSE IF ~IsImage(req[r].content_type.value)
                  THEN Step(r, Responded(req[r],
                          ErrorResponse(HTTPException(400, <<"File must be an image">>))))
                  ELSE Step(r, [req[r] EXCEPT !.pc = "typed"])

\* line 290: contents = await file.read(), inside the try block
ReadFile(r) ==
    /\ req[r].pc = "typed"
    /\ \/ Step(r, [req[r] EXCEPT !.pc = "read",
                                 !.reads = @ + 1,
                                 !.contents = req[r].size])
       \/ Step(r, [Responded(req[r],
                      ErrorResponse(ExceptClauses(Exception("read failed"))))
                      EXCEPT !.reads = @ + 1])

\* a size test that also rejects a payload of exactly the limit
TooLargeFromLimit(n) == n >= MAX_BYTES

\* line 293: len(contents) > 10 * 1024 * 1024
TooLarge(n) == n > MAX_BYTES

\* lines 292-294: the HTTPException is raised inside the try block
CheckSize(r) ==
    /\ req[r].pc = "read"
    /\ IF TooLarge(req[r].contents)
          THEN Step(r, Responded(req[r],
                  ErrorResponse(ExceptClauses(
                      HTTPException(400, <<"File too large (max 10MB)">>)))))
          ELSE Step(r, [req[r] EXCEPT !.pc = "sized"])

\* lines 297 and 202-213: predict_image is entered
PredictImage(r) ==
    /\ req[r].pc = "sized"
    /\ IF ModelAbsent(model)
          THEN Step(r, [req[r] EXCEPT !.pc = "predicted", !.result = DemoResult])
          ELSE Step(r, [req[r] EXCEPT !.pc = "decoding"])

\* lines 217-223: decode, resize, scale; an exception goes to lines 249-254
Decode(r) ==
    /\ req[r].pc = "decoding"
    /\ \/ Step(r, [req[r] EXCEPT !.pc = "decoded",
                                 !.decodes = @ + 1,
                                 !.decoded = "ok"])
       \/ \E msg \in DecodeErrors :
             Step(r, [req[r] EXCEPT !.pc = "predicted",
                                    !.decodes = @ + 1,
                                    !.decoded = msg,
                                    !.result = FailureResult(msg)])

\* line 226: model.predict; an exception goes to lines 249-254
Infer(r) ==
    /\ req[r].pc = "decoded"
    /\ \/ \E p \in InferOutputs :
             Step(r, [req[r] EXCEPT !.pc = "inferred",
                                    !.infers = @ + 1,
                                    !.inferred = "ok",
                                    !.probs = p])
       \/ \E msg \in InferenceErrors :
             Step(r, [req[r] EXCEPT !.pc = "predicted",
                                    !.infers = @ + 1,
                                    !.inferred = msg,
                                    !.result = FailureResult(msg)])

\* lines 228-254
Format(r) ==
    /\ req[r].pc = "inferred"
    /\ Step(r, [req[r] EXCEPT !.pc = "predicted",
                              !.result = FormatResult(req[r].probs)])

\* a detail that drops the error message
FailureDetailFixed(result) == <<"Prediction failed">>

\* line 302: detail=result.get("error", "Prediction failed")
FailureDetail(result) == <<Get(result, "error", "Prediction failed")>>

\* lines 299-305: the HTTPException is raised inside the try block
Respond(r) ==
    /\ req[r].pc = "predicted"
    /\ IF ~Get(req[r].result, "success", FALSE)
          THEN Step(r, Responded(req[r],
                  ErrorResponse(ExceptClauses(
                      HTTPException(500, FailureDetail(req[r].result))))))
          ELSE Step(r, Responded(req[r], OkResponse(req[r].result)))

\* lines 280-311
predict_xray(r) ==
    \/ CheckContentType(r)
    \/ ReadFile(r)
    \/ CheckSize(r)
    \/ PredictImage(r)
    \/ Decode(r)
    \/ Infer(r)
    \/ Format(r)
    \/ Respond(r)

----------------------------------------------------------------------------
(* Specifications *)

\* The import of app.py, from any state of the disk
InitStartup ==
    /\ spc = "download_model_safely"
    /\ i = 1
    /\ file \in FileStates
    /\ attempts = <<>>
    /\ model = Unset
    /\ req = [r \in Requests |-> IdleRequest]

Handle(r) ==
    \/ Arrive(r)
    \/ root(r)
    \/ health_check(r)
    \/ get_recent_scans(r)
    \/ predict_xray(r)

\* The import, and then the first request the service takes
NextStartup ==
    \/ CheckCached
    \/ MakeDirs
    \/ LoopAttempt
    \/ Fallback
    \/ LoadModel
    \/ Handle(1)

SpecStartup == InitStartup /\ [][NextStartup]_vars

\* Outcomes of the import: the cached artifact loaded; every strategy
\* failed; a download that is no Keras model
ImportOutcomes ==
    {[i |-> 1, file |-> "valid", attempts |-> <<"cached">>, model |-> Loaded],
     [i |-> 3, file |-> "absent",
      attempts |-> <<"cached", "direct", "alternate", "synth", "synth">>,
      model |-> None],
     [i |-> 1, file |-> "corrupt", attempts |-> <<"cached", "direct">>,
      model |-> None]}

\* The service after the import
Init ==
    /\ spc = "serving"
    /\ \E o \in ImportOutcomes :
          /\ i = o.i
          /\ file = o.file
          /\ attempts = o.attempts
          /\ model = o.model
    /\ req = [r \in Requests |-> IdleRequest]

Next == \E r \in Requests : Handle(r)

Spec == Init /\ [][Next]_vars

\* Every probability vector of the four classes over 0..MaxProb
ProbVectors == [1..Len(class_names) -> 0..MaxProb]

\* A request of a loaded service whose inference has just returned
InferredRequest(p) ==
    [IdleRequest EXCEPT !.pc = "inferred", !.endpoint = "/api/predict",
                        !.content_type = ContentType(Chars_image_png),
                        !.size = 1, !.contents = 1, !.reads = 1,
                        !.decodes = 1, !.decoded = "ok",
                        !.infers = 1, !.inferred = "ok", !.probs = p]

InitFormat ==
    /\ spc = "serving"
    /\ i = 1
    /\ file = "valid"
    /\ attempts = <<"cached">>
    /\ model = Loaded
    /\ \E p \in ProbVectors :
          req = [r \in Requests |-> IF r = 1 THEN InferredRequest(p) ELSE IdleRequest]

NextFormat ==
    \/ Format(1)
    \/ Respond(1)

\* The formatter on every vector of ProbVectors
SpecFormat == InitFormat /\ [][NextFormat]_vars

----------------------------------------------------------------------------
(* Properties *)

IsPrefix(s, t) == Len(s) <= Len(t) /\ s = SubSeq(t, 1, Len(s))

\* the order the strategies are to be tried in
StrategyOrder == <<"cached", "direct", "alternate", "synth">>

Predicts(r) == req[r].endpoint = "/api/predict"

\* the upload declares a content type beginning with "image/"
DeclaresImage(r) ==
    /\ req[r].content_type.present
    /\ StartsWith(req[r].content_type.value, <<"i", "m", "a", "g", "e", "/">>)

\* the upload declares a content type not beginning with "image/"
DeclaresOther(r) ==
    /\ req[r].content_type.present
    /\ ~StartsWith(req[r].content_type.value, <<"i", "m", "a", "g", "e", "/">>)

\* the payload has been read
WasRead(r) == req[r].contents # -1

\* the upload passed both validations
Validated(r) ==
    Predicts(r) /\ DeclaresImage(r) /\ WasRead(r) /\ req[r].contents <= 10485760

Is400(resp, text) == resp = [status |-> 400, body |-> [detail |-> <<text>>]]

Is500(resp, text) == resp = [status |-> 500, body |-> [detail |-> <<text>>]]

\* C1: with no model loaded, every validated /api/predict request is answered
\* with the fixed demo payload and never with a failure status.
C1_DemoPayloadNotFailure ==
    \A r \in Requests :
        (model = None /\ Validated(r) /\ req[r].pc = "responded")
            => /\ req[r].response.status = 200
               /\ req[r].response.body = DemoResult

\* C2: a /api/predict request whose declared content type does not begin with
\* "image/" ends with HTTP 400, and nothing of it is read, decoded or inferred
\* on the way, whatever its size and whether or not a model is loaded.
C2_NonImageRejectedFirst ==
    \A r \in Requests :
        (Predicts(r) /\ DeclaresOther(r))
            => /\ req[r].pc \in {"received", "responded"}
               /\ req[r].reads = 0
               /\ req[r].decodes = 0
               /\ req[r].infers = 0
               /\ req[r].result = NoResult
               /\ req[r].pc = "responded"
                    => Is400(req[r].response, "File must be an image")

C2_Witness ==
    \E r \in Requests :
        /\ model = Loaded
        /\ Predicts(r) /\ DeclaresOther(r)
        /\ req[r].size > 10485760
        /\ req[r].pc = "responded"
        /\ req[r].response.status = 400

\* C3: an image upload longer than 10 MiB ends with HTTP 400 (not 500) and
\* predict_image is never entered for it; one of 10 MiB or less is not
\* answered 400.
C3_OversizeRejected ==
    \A r \in Requests :
        (Predicts(r) /\ DeclaresImage(r) /\ WasRead(r))
            => /\ req[r].contents > 10485760
                    => /\ req[r].pc \in {"read", "responded"}
                       /\ req[r].decodes = 0
                       /\ req[r].infers = 0
                       /\ req[r].result = NoResult
                       /\ req[r].pc = "responded"
                            => Is400(req[r].response, "File too large (max 10MB)")
               /\ (req[r].contents <= 10485760 /\ req[r].pc = "responded")
                    => /\ req[r].response.status # 400
                       /\ req[r].result # NoResult

C3_Witness ==
    /\ \E r \in Requests :
          /\ Predicts(r) /\ DeclaresImage(r)
          /\ req[r].contents = 10485761
          /\ req[r].pc = "responded"
          /\ req[r].response.status = 400
    /\ \E r \in Requests :
          /\ Predicts(r) /\ DeclaresImage(r)
          /\ req[r].contents = 10485760
          /\ req[r].pc = "responded"
          /\ req[r].response.status = 200

\* the class index of a label
ClassIndex(label) == CHOOSE k \in 1..4 : class_names[k] = label

\* the lowest class index holding the greatest probability
ArgMax(p) ==
    CHOOSE k \in 1..Len(p) :
        /\ \A j \in 1..Len(p) : p[j] <= p[k]
        /\ \A j \in 1..(k - 1) : p[j] < p[k]

\* a request whose probability vector has been formatted
Formatted(r) ==
    /\ req[r].pc \in {"predicted", "responded"}
    /\ req[r].inferred = "ok"
    /\ Len(req[r].probs) = 4

\* C4: for a probability vector of the four classes the predictions list has
\* four entries, each label once with its positional probability, in
\* non-increasing order of confidence, equal confidences in class-index
\* order; primary_diagnosis and confidence are those of the greatest
\* probability at the lowest class index.
C4_RankedPredictions ==
    \A r \in Requests :
        Formatted(r) =>
            LET p == req[r].probs
                res == req[r].result
                out == res.predictions
            IN  /\ res.success
                /\ Len(out) = 4
                /\ \A k \in 1..4 :
                      /\ Cardinality({j \in 1..4 : out[j].class = class_names[k]}) = 1
                      /\ \A j \in 1..4 :
                            out[j].class = class_names[k] => out[j].confidence = p[k]
                /\ \A j \in 1..3 :
                      /\ out[j].confidence >= out[j + 1].confidence
                      /\ out[j].confidence = out[j + 1].confidence
                            => ClassIndex(out[j].class) < ClassIndex(out[j + 1].class)
                /\ res.primary_diagnosis = class_names[ArgMax(p)]
                /\ res.confidence = p[ArgMax(p)]
                /\ req[r].pc = "responded"
                      => req[r].response = [status |-> 200, body |-> res]

C4_Witness ==
    \E r \in Requests :
        /\ Formatted(r)
        /\ req[r].pc = "responded"
        /\ req[r].probs[2] = req[r].probs[3]
        /\ req[r].probs[2] > req[r].probs[1]
        /\ req[r].result.primary_diagnosis = "PNEUMONIA"

\* C5: with a model loaded, a failed decode or a failed inference ends the
\* request with HTTP 500 carrying the error message, and neither the decode
\* nor the inference is made a second time.
C5_FailureIs500Once ==
    \A r \in Requests :
        /\ req[r].decodes <= 1
        /\ req[r].infers <= 1
        /\ (req[r].pc = "responded" /\ req[r].decoded \in DecodeErrors)
              => /\ model = Loaded
                 /\ Is500(req[r].response, req[r].decoded)
                 /\ req[r].decodes = 1
                 /\ req[r].infers = 0
        /\ (req[r].pc = "responded" /\ req[r].inferred \in InferenceErrors)
              => /\ model = Loaded
                 /\ Is500(req[r].response, req[r].inferred)
                 /\ req[r].decodes = 1
                 /\ req[r].infers = 1

C5_Witness ==
    /\ \E r \in Requests :
          req[r].pc = "responded" /\ req[r].decoded \in DecodeErrors
    /\ \E r \in Requests :
          req[r].pc = "responded" /\ req[r].inferred \in InferenceErrors

\* C6: no /api/predict request leaves predict_xray through an exception that
\* is not an HTTPException; every failure is a 400 or a 500 with a detail.
C6_EveryErrorStructured ==
    \A r \in Requests :
        (Predicts(r) /\ req[r].pc = "responded")
            => /\ req[r].leaked = ""
               /\ req[r].response.status \in {200, 400, 500}
               /\ req[r].response.status \in {400, 500}
                    => "detail" \in DOMAIN req[r].response.body

\* C7: the import never ends in a crash, whatever the strategies and the
\* load do.
C7_StartupNeverCrashes == spc # "crashed"

\* C8: the strategies attempted during one import are a prefix of
\* [cached, direct, alternate, synth], none attempted twice.
C8_AttemptsPrefixOfOrder == IsPrefix(attempts, StrategyOrder)

\* C9: model.predict is called for a request only with a model loaded and
\* after the request passed both validations and was decoded; with no model
\* a validated request goes straight to the demo result, with no decode and
\* no inference.
C9_InferOnlyLoadedValidatedDecoded ==
    \A r \in Requests :
        /\ req[r].infers > 0
              => /\ model = Loaded
                 /\ Validated(r)
                 /\ req[r].decodes = 1
                 /\ req[r].decoded = "ok"
        /\ model = None
              => /\ req[r].decodes = 0
                 /\ req[r].infers = 0
                 /\ req[r].pc \notin {"decoding", "decoded", "inferred"}
                 /\ req[r].pc = "predicted" => req[r].result = DemoResult

C9_Witness ==
    \E r \in Requests :
        /\ model = Loaded
        /\ req[r].infers = 1
        /\ req[r].inferred = "ok"

\* what a request brings with it: the endpoint and its parameters, the
\* upload, and how its bytes decode and what the model gives for them
Input(r) ==
    <<req[r].endpoint, req[r].limit, req[r].content_type, req[r].size,
      req[r].contents, req[r].decoded, req[r].inferred, req[r].probs>>

ResponsesIndependent ==
    \A r1, r2 \in Requests :
        (req[r1].pc = "responded" /\ req[r2].pc = "responded" /\ Input(r1) = Input(r2))
            => req[r1].response = req[r2].response

\* C10: once the service runs no handler changes the model handle, under any
\* interleaving of the requests, and two requests bringing the same input
\* get the same response, whatever runs beside them.
C10_HandleFixedResponsesIndependent ==
    /\ [][spc = "serving" => model' = model]_vars
    /\ []ResponsesIndependent

C10_Witness ==
    \E r1, r2 \in Requests :
        /\ r1 # r2
        /\ model = Loaded
        /\ Predicts(r1)
        /\ req[r1].pc = "responded" /\ req[r2].pc = "responded"
        /\ Input(r1) = Input(r2)
        /\ req[r1].response.status = 200

====
